---------------------------- MODULE Spec2Model ----------------------------
(***************************************************************************)
(* Model of node-announcer.cpp: two producer threads (positionServer and   *)
(* graphServer) that broadcast UDP datagrams, and main(), which starts     *)
(* them, waits for a line on stdin, clears the atomic flag `running` and   *)
(* joins them.                                                             *)
(*                                                                         *)
(* Memory is modelled at byte level: a struct is the sequence of its bytes *)
(* (little-endian host), a byte that was never written is Indet, memcpy    *)
(* and sendto work on byte offsets.  A float coordinate is modelled by an  *)
(* integer-valued float and encoded as IEEE-754 binary32.                  *)
(*                                                                         *)
(* Each std::mt19937 is a deterministic generator whose only input is its  *)
(* seed rd(); it is modelled by a small linear congruential generator        *)
(* whose seed is drawn from 0..MaxSeed.                                    *)
(***************************************************************************)
EXTENDS Integers, Sequences, FiniteSets, TLC

(***************************************************************************)
(* Bounds of the model                                                     *)
(***************************************************************************)
\* largest seed value rd() returns
MaxSeed == 1
\* number of sweeps (outer loop iterations) a producer may start
MaxSweeps == 1
\* afterStop counts the datagrams sent after the stop up to this number
MaxAfterStop == 2

(***************************************************************************)
(* Program constants                                                       *)
(***************************************************************************)
NUM_NODES == 20
MIN_EDGES == 6
MAX_EDGES == 35
\* GraphEdge edges[50]
EDGE_SLOTS == 50
\* pos_dist(0.0f, 1000.0f) and the clamp bounds of updatePositions
POS_MIN == 0
POS_MAX == 1000
\* move_dist(-5.0f, 5.0f)
MOVE_MAX == 5
\* strength_dist(1, 1000)
STRENGTH_MAX == 1000

Threads == {"pos", "graph"}

\* a byte of an object that was never written (indeterminate value)
Indet == -1

Min(a, b) == IF a < b THEN a ELSE b
Max(a, b) == IF a > b THEN a ELSE b

\* the element of a one-element set; { F(v) : v \in {e} } evaluates e once,
\* which is how the loops below carry their local variables from one
\* iteration to the next
Only(S) == CHOOSE v \in S : TRUE

(***************************************************************************)
(* Byte representation of the scalar types                                 *)
(***************************************************************************)
SizeofU16 == 2
SizeofFloat == 4

U16LE(v) == << v % 256, (v \div 256) % 256 >>

ParseU16(b) == b[1] + 256 * b[2]

\* exponent of the highest set bit of v, v in 1..2^24 - 1
Log2Floor(v) == CHOOSE e \in 0..23 : 2 ^ e <= v /\ v < 2 ^ (e + 1)

\* IEEE-754 binary32 bit pattern of the non-negative integer-valued float v
F32Bits(v) ==
    IF v = 0 THEN 0
    ELSE Only({ (e + 127) * (2 ^ 23) + (v - 2 ^ e) * (2 ^ (23 - e)) :
                    e \in {Log2Floor(v)} })

F32LE(v) ==
    Only({ << b % 256, (b \div 256) % 256, (b \div 65536) % 256, b \div 16777216 >> :
               b \in {F32Bits(v)} })

\* value of the binary32 whose little-endian bytes are b (integer-valued)
ParseF32(b) ==
    LET bits == b[1] + 256 * b[2] + 65536 * b[3] + 16777216 * b[4]
        e    == (bits \div (2 ^ 23)) - 127
        m    == bits % (2 ^ 23)
    IN  IF bits = 0 THEN 0 ELSE (2 ^ 23 + m) \div (2 ^ (23 - e))

IndetBytes(n) == [i \in 1..n |-> Indet]

\* std::memcpy(mem + dst, mem + src, n) on the bytes of one object
Memcpy(mem, dst, src, n) ==
    [i \in 1..Len(mem) |->
        IF i - 1 >= dst /\ i - 1 < dst + n THEN mem[src + (i - dst)] ELSE mem[i]]

\* the bytes sendto() reads: size bytes starting at byte offset off
Bytes(mem, off, size) == SubSeq(mem, off + 1, off + size)

(***************************************************************************)
(* std::mt19937 and the distributions                                      *)
(***************************************************************************)
LcgA == 75
LcgC == 74
LcgM == 65537

\* one step of the generator
GenNext(s) == (LcgA * s + LcgC) % LcgM

\* the value a distribution sees after one step
GenOut(s) == GenNext(s)

\* std::uniform_int_distribution<>(lo, hi)(gen)
UniformInt(s, lo, hi) == lo + (GenOut(s) % (hi - lo + 1))

\* sample grid of pos_dist: the floats the model draws from.  1000.0f is a
\* value std::uniform_real_distribution<float>(0, 1000) can round up to.
InitCoords == << 0, 3, 257, 999, 1000 >>

\* pos_dist(gen)
PosDist(s) == InitCoords[1 + (GenOut(s) % Len(InitCoords))]

\* a move_dist one step wider on each side
MoveDistWide(s) == UniformInt(s, 0 - (MOVE_MAX + 1), MOVE_MAX + 1)

\* move_dist(gen)
MoveDist(s) == UniformInt(s, 0 - MOVE_MAX, MOVE_MAX)

\* coin_toss(gen)
CoinToss(s) == UniformInt(s, 0, 9)


(***************************************************************************)
(* NodeManager: the World Model                                            *)
(***************************************************************************)
\* node_ids filled from the highest id down
NodeIdsDescending == [i \in 1..NUM_NODES |-> NUM_NODES + 1 - i]

\* node_ids after the constructor: push_back(i) for i = 1..NUM_NODES
NodeIds == [i \in 1..NUM_NODES |-> i]

\* one iteration of the loop of the constructor that fills node_ids and
\* positions; st holds the generator state, the map and the loop index
NodeManagerInitStep(st) ==
    [gen       |-> GenNext(GenNext(st.gen)),
     positions |-> [st.positions EXCEPT
                       ![st.i] = << PosDist(st.gen), PosDist(GenNext(st.gen)) >>],
     i         |-> st.i + 1]

\* k consecutive iterations of that loop, the first half before the second
RECURSIVE NodeManagerInit(_, _)
NodeManagerInit(st, k) ==
    IF k <= 1
    THEN IF k = 1 THEN NodeManagerInitStep(st) ELSE st
    ELSE Only({ Only({ NodeManagerInit(m, h[2]) : m \in {NodeManagerInit(st, h[1])} }) :
                    h \in {<< k \div 2, k - (k \div 2) >>} })

\* a clamp that forgets the upper bound
ClampLowOnly(v) == Max(POS_MIN, v)

\* std::max(0.0f, std::min(1000.0f, v))
Clamp(v) == Max(POS_MIN, Min(POS_MAX, v))

\* a loop body that tosses the coin for each axis of its own
UpdateNodePerAxis(s, pos) ==
    LET cx == CoinToss(s) % 2 = 1
        s1 == GenNext(s)
        dx == IF cx THEN MoveDist(s1) ELSE 0
        s2 == IF cx THEN GenNext(s1) ELSE s1
        cy == CoinToss(s2) % 2 = 1
        s3 == GenNext(s2)
        dy == IF cy THEN MoveDist(s3) ELSE 0
        s4 == IF cy THEN GenNext(s3) ELSE s3
    IN  [gen |-> s4, pos |-> << Clamp(pos[1] + dx), Clamp(pos[2] + dy) >>,
         moved |-> cx \/ cy, delta |-> << dx, dy >>, drew |-> << cx, cy >>,
         coins |-> 2]

\* the body of the loop of updatePositions for one node: the coin, the two
\* deltas and the clamp; returns the generator state and the new position,
\* and what was drawn: the coin_toss(gen) calls made (coins) and for which
\* axes a move_dist(gen) was drawn and added (drew)
UpdateNode(s, pos) ==
    LET coin == CoinToss(s)
        s1   == GenNext(s)
    IN  IF coin % 2 = 1
        THEN LET dx == MoveDist(s1)
                 s2 == GenNext(s1)
                 dy == MoveDist(s2)
                 s3 == GenNext(s2)
             IN  [gen |-> s3, pos |-> << Clamp(pos[1] + dx), Clamp(pos[2] + dy) >>,
                  moved |-> TRUE, delta |-> << dx, dy >>,
                  drew |-> << TRUE, TRUE >>, coins |-> 1]
        ELSE [gen |-> s1, pos |-> pos, moved |-> FALSE, delta |-> << 0, 0 >>,
              drew |-> << FALSE, FALSE >>, coins |-> 1]

\* one iteration of the loop of updatePositions(): the node after those
\* st.moves tells of; moves records for every node whether it was moved,
\* from where and by which deltas
UpdatePositionsStep(st) ==
    LET i == Len(st.moves) + 1
    IN  Only({ [gen       |-> r.gen,
                positions |-> [st.positions EXCEPT ![i] = r.pos],
                moves     |-> Append(st.moves,
                                     [moved |-> r.moved, from |-> st.positions[i],
                                      delta |-> r.delta, drew |-> r.drew,
                                      coins |-> r.coins])] :
                   r \in {UpdateNode(st.gen, st.positions[i])} })

\* k consecutive iterations of that loop, the first half before the second
RECURSIVE UpdatePositions(_, _)
UpdatePositions(st, k) ==
    IF k <= 1
    THEN IF k = 1 THEN UpdatePositionsStep(st) ELSE st
    ELSE Only({ Only({ UpdatePositions(m, h[2]) : m \in {UpdatePositions(st, h[1])} }) :
                    h \in {<< k \div 2, k - (k \div 2) >>} })

\* getPosition(id)
GetPosition(positions, id) ==
    IF id \in DOMAIN positions THEN positions[id] ELSE << 0, 0 >>

(***************************************************************************)
(* PositionPacket and what positionServer sends of it                      *)
(***************************************************************************)
\* a PositionPacket with x and y stored in each other's place
PositionPacketBytesSwapped(id, x, y) ==
    U16LE(id) \o IndetBytes(SizeofFloat - SizeofU16) \o F32LE(y) \o F32LE(x)

\* struct PositionPacket { uint16_t node_id; float x; float y; }: the float
\* members are 4-byte aligned, bytes 2..3 are padding
PositionPacketBytes(id, x, y) ==
    U16LE(id) \o IndetBytes(SizeofFloat - SizeofU16) \o F32LE(x) \o F32LE(y)

SizeofPositionPacket == Len(PositionPacketBytes(0, 0, 0))

\* byte offset of the padding, to which positionServer copies node_id
PosPadOffset == 2

\* sending from the start of the record
PosSendOffsetZero == 0 * SizeofU16

\* byte offset from which positionServer sends
PosSendOffset == 2

\* subtracting the size of the wrong member
PosSendSizeShort == SizeofPositionPacket - SizeofFloat

\* number of bytes positionServer sends
PosSendSize == SizeofPositionPacket - SizeofU16

\* lines 204-232: build the packet, copy node_id over the padding, send the
\* record from byte 2 on
PositionDatagram(id, pos) ==
    Only({ Bytes(Memcpy(packet, PosPadOffset, 0, SizeofU16),
                 PosSendOffset, PosSendSize) :
               packet \in {PositionPacketBytes(id, pos[1], pos[2])} })

(***************************************************************************)
(* GraphGenerator and GraphPacket                                          *)
(***************************************************************************)
\* a single draw of target_id, with no rejection
DrawTargetOnce(s, src, rejects) ==
    [gen |-> GenNext(s), val |-> UniformInt(s, 1, NUM_NODES), rejects |-> rejects]

\* the do-while of generateGraph: draw target_id until it differs from
\* source_id; rejects counts the draws thrown away
RECURSIVE DrawTarget(_, _, _)
DrawTarget(s, src, rejects) ==
    LET t == UniformInt(s, 1, NUM_NODES)
    IN  IF t = src THEN DrawTarget(GenNext(s), src, rejects + 1)
        ELSE [gen |-> GenNext(s), val |-> t, rejects |-> rejects]

\* one iteration of the for loop of generateGraph: st.edges holds the slots
\* written so far, the loop index i is their number
GenEdge(st) ==
    LET src == UniformInt(st.gen, 1, NUM_NODES)
    IN  Only({ [gen     |-> GenNext(t.gen),
                edges   |-> Append(st.edges,
                                   [source_id |-> src, target_id |-> t.val,
                                    strength  |-> UniformInt(t.gen, 1,
                                                             STRENGTH_MAX)]),
                rejects |-> t.rejects] :
                   t \in {DrawTarget(GenNext(st.gen), src, st.rejects)} })

\* k consecutive iterations of that loop, the first half before the second
RECURSIVE GenEdges(_, _)
GenEdges(st, k) ==
    IF k <= 1
    THEN IF k = 1 THEN GenEdge(st) ELSE st
    ELSE Only({ Only({ GenEdges(m, h[2]) : m \in {GenEdges(st, h[1])} }) :
                    h \in {<< k \div 2, k - (k \div 2) >>} })

\* edge_count_dist(gen)
EdgeCountDist(s) == UniformInt(s, MIN_EDGES, MAX_EDGES)

\* a generateGraph that names the source of its first edge as the sender
GenerateGraphSenderFromEdge(s, sender) ==
    Only({ Only({ [gen |-> r.gen, rejects |-> r.rejects,
                   packet |-> [sender_id |-> r.edges[1].source_id,
                               edge_count |-> n % 65536, edges |-> r.edges]] :
                      r \in {GenEdges([gen |-> GenNext(s), edges |-> << >>,
                                       rejects |-> 0], n)} }) :
               n \in {EdgeCountDist(s)} })

\* generateGraph(sender_id): edges holds the slots the loop has written
GenerateGraph(s, sender) ==
    Only({ Only({ [gen |-> r.gen, rejects |-> r.rejects,
                   packet |-> [sender_id |-> sender, edge_count |-> n % 65536,
                               edges |-> r.edges]] :
                      r \in {GenEdges([gen |-> GenNext(s), edges |-> << >>,
                                       rejects |-> 0], n)} }) :
               n \in {EdgeCountDist(s)} })

SizeofGraphEdge == 3 * SizeofU16

GraphEdgeBytes(e) == U16LE(e.source_id) \o U16LE(e.target_id) \o U16LE(e.strength)

\* the bytes of the slots edges[0..n-1], one after the other
EdgesBytes(edges) ==
    Only({ [j \in 1..(SizeofGraphEdge * Len(eb)) |->
               eb[((j - 1) \div SizeofGraphEdge) + 1]
                 [((j - 1) % SizeofGraphEdge) + 1]] :
               eb \in {<< >> \o [i \in 1..Len(edges) |-> GraphEdgeBytes(edges[i])]} })

\* the bytes of a GraphPacket object: the slots the loop did not write are
\* indeterminate
GraphPacketBytes(p) ==
    U16LE(p.sender_id) \o U16LE(p.edge_count) \o EdgesBytes(p.edges)
        \o IndetBytes(SizeofGraphEdge * (EDGE_SLOTS - Len(p.edges)))

SizeofGraphPacket == 2 * SizeofU16 + EDGE_SLOTS * SizeofGraphEdge

\* sending the whole GraphPacket object
GraphSendSizeWhole(p) == SizeofGraphPacket

\* number of bytes graphServer sends
GraphSendSize(p) == SizeofGraphPacket - SizeofGraphEdge * (EDGE_SLOTS - p.edge_count)

\* line 255
GraphDatagram(p) == Bytes(GraphPacketBytes(p), 0, GraphSendSize(p))


(***************************************************************************)
(* State                                                                   *)
(***************************************************************************)
VARIABLES
    rd,           \* the value std::random_device delivers to the generators
    running,      \* std::atomic<bool> running
    mainPc,       \* position of main()
    pc,           \* position of each producer thread
    sock,         \* UDPServer::sock of each producer: "none", "open", "closed"
    node,         \* index of the inner for loop of each producer (0: not in it)
    sweeps,       \* outer loop iterations each producer has started
    posGen,       \* NodeManager::gen
    positions,    \* NodeManager::positions
    moves,        \* what the last updatePositions() did to each node
    graphGen,     \* GraphGenerator::gen
    packet,       \* the GraphPacket graphServer generated last
    rejects,      \* draws the do-while of the last generateGraph threw away
    out,          \* the bytes each producer handed to sendto() last
    sendFailed,   \* whether some sendto() of each producer was rejected
    afterStop,    \* sendto() calls each producer made while running was false,
                  \* counted up to MaxAfterStop
    lock          \* std::mutex lock: the task that holds it, or "unlocked"

vars == << rd, running, mainPc, pc, sock, node, sweeps, posGen, positions,
           moves, graphGen, packet, rejects, out, sendFailed, afterStop, lock >>

mainVars  == << rd, running, mainPc, lock >>
posVars   == << posGen, positions, moves >>
graphVars == << graphGen, packet, rejects >>

NoPacket == [sender_id |-> 0, edge_count |-> 0, edges |-> << >>]

Init ==
    /\ rd \in 0..MaxSeed
    /\ running = TRUE
    /\ mainPc = "start"
    /\ pc = [t \in Threads |-> "unstarted"]
    /\ sock = [t \in Threads |-> "none"]
    /\ node = [t \in Threads |-> 0]
    /\ sweeps = [t \in Threads |-> 0]
    /\ posGen = 0
    /\ positions = [i \in 1..NUM_NODES |-> << 0, 0 >>]
    /\ moves = << >>
    /\ graphGen = 0
    /\ packet = NoPacket
    /\ rejects = 0
    /\ out = [t \in Threads |-> << >>]
    /\ sendFailed = [t \in Threads |-> FALSE]
    /\ afterStop = [t \in Threads |-> 0]
    /\ lock = "unlocked"

(***************************************************************************)
(* UDPServer                                                               *)
(***************************************************************************)
\* what socket() and setsockopt() of the constructor can do
SocketOutcomes == {"ok", "socket_fail", "sockopt_fail"}

\* the socket after the constructor ran with outcome r: a constructor that
\* throws leaves no object, so the destructor never runs
SockAfterCtor(r) == IF r = "socket_fail" THEN "none" ELSE "open"

\* a producer that goes on although the constructor threw
PcAfterCtorIgnore(r) == "print_started"

\* where the producer goes after the constructor ran with outcome r
PcAfterCtor(r) == IF r = "ok" THEN "print_started" ELSE "print_error"

\* a sendPacket() that throws when sendto() fails
AfterSendThrow(ok, next) == IF ok THEN next ELSE "print_error"

\* sendPacket(): the value of sendto() is dropped, the caller goes on to
\* where the loop takes it (next) whether the datagram was accepted or not
AfterSend(ok, next) == next

\* one more sendto() call, made while running was r
CountAfterStop(n, r) == IF r THEN n ELSE Min(n + 1, MaxAfterStop)

\* a loop that never looks at the flag
LoopCondTrue(r) == TRUE

\* while (running)
LoopCond(r) == r

(***************************************************************************)
(* positionServer                                                          *)
(***************************************************************************)
\* UDPServer server(12345); NodeManager nodeManager;
PosInit ==
    /\ pc["pos"] = "init"
    /\ \E r \in SocketOutcomes :
        /\ sock' = [sock EXCEPT !["pos"] = SockAfterCtor(r)]
        /\ pc' = [pc EXCEPT !["pos"] = PcAfterCtor(r)]
        /\ IF r = "ok"
           THEN \E m \in {NodeManagerInit([gen |-> rd, positions |-> positions,
                                            i |-> 1], NUM_NODES)} :
                    /\ posGen' = m.gen
                    /\ positions' = m.positions
                    /\ UNCHANGED moves
           ELSE UNCHANGED posVars
    /\ UNCHANGED << mainVars, node, sweeps, graphVars, out, sendFailed, afterStop >>

\* std::cout << "Position server started on port 12345\n";
PosPrintStarted ==
    /\ pc["pos"] = "print_started"
    /\ pc' = [pc EXCEPT !["pos"] = "head"]
    /\ UNCHANGED << mainVars, sock, node, sweeps, posVars, graphVars, out,
                    sendFailed, afterStop >>

\* while (running)
PosHead ==
    /\ pc["pos"] = "head"
    /\ IF LoopCond(running)
       THEN /\ sweeps["pos"] < MaxSweeps
            /\ sweeps' = [sweeps EXCEPT !["pos"] = @ + 1]
            /\ pc' = [pc EXCEPT !["pos"] = "tick"]
       ELSE /\ pc' = [pc EXCEPT !["pos"] = "print_stopped"]
            /\ UNCHANGED sweeps
    /\ UNCHANGED << mainVars, sock, node, posVars, graphVars, out, sendFailed,
                    afterStop >>

\* nodeManager.updatePositions(); and the entry of the for loop
PosTick ==
    /\ pc["pos"] = "tick"
    /\ node' = [node EXCEPT !["pos"] = 1]
    /\ pc' = [pc EXCEPT !["pos"] = "emit"]
    /\ UNCHANGED << mainVars, sock, sweeps, graphVars, out, sendFailed, afterStop >>
    /\ \E m \in {UpdatePositions([gen |-> posGen, positions |-> positions,
                                moves |-> << >>], NUM_NODES)} :
           /\ posGen' = m.gen
           /\ positions' = m.positions
           /\ moves' = m.moves

\* one iteration of the for loop: build the packet, server.sendPacket(...),
\* sleep_for(10ms), and the step of the loop; ok is what sendto() answers
PosEmit ==
    /\ pc["pos"] = "emit"
    /\ node' = [node EXCEPT !["pos"] = IF @ < Len(NodeIds) THEN @ + 1 ELSE 0]
    /\ afterStop' = [afterStop EXCEPT !["pos"] = CountAfterStop(@, running)]
    /\ UNCHANGED << mainVars, sock, sweeps, posVars, graphVars >>
    /\ \E d \in {PositionDatagram(NodeIds[node["pos"]],
                                  GetPosition(positions, NodeIds[node["pos"]]))} :
           \E ok \in BOOLEAN :
            /\ out' = [out EXCEPT !["pos"] = d]
            /\ sendFailed' = [sendFailed EXCEPT !["pos"] = @ \/ ~ok]
            /\ pc' = [pc EXCEPT !["pos"] =
                        AfterSend(ok, IF node["pos"] < Len(NodeIds)
                                      THEN "emit" ELSE "outer_sleep")]

\* sleep_for(100ms)
PosOuterSleep ==
    /\ pc["pos"] = "outer_sleep"
    /\ pc' = [pc EXCEPT !["pos"] = "head"]
    /\ UNCHANGED << mainVars, sock, node, sweeps, posVars, graphVars, out,
                    sendFailed, afterStop >>

\* std::cout << "Position server stopped.\n";
PosPrintStopped ==
    /\ pc["pos"] = "print_stopped"
    /\ pc' = [pc EXCEPT !["pos"] = "unwind"]
    /\ UNCHANGED << mainVars, sock, node, sweeps, posVars, graphVars, out,
                    sendFailed, afterStop >>

\* end of the try block: ~NodeManager(), ~UDPServer() closes the socket
PosUnwind ==
    /\ pc["pos"] = "unwind"
    /\ sock' = [sock EXCEPT !["pos"] = "closed"]
    /\ pc' = [pc EXCEPT !["pos"] = "done"]
    /\ UNCHANGED << mainVars, node, sweeps, posVars, graphVars, out, sendFailed,
                    afterStop >>

\* a catch block that also stops the whole program
PosPrintErrorAbort ==
    /\ pc["pos"] = "print_error"
    /\ pc' = [pc EXCEPT !["pos"] = "done"]
    /\ running' = FALSE
    /\ UNCHANGED << rd, mainPc, lock, sock, node, sweeps, posVars, graphVars, out,
                    sendFailed, afterStop >>

\* catch: std::cerr << "Position server error: " ...
PosPrintError ==
    /\ pc["pos"] = "print_error"
    /\ pc' = [pc EXCEPT !["pos"] = "done"]
    /\ UNCHANGED << mainVars, sock, node, sweeps, posVars, graphVars, out,
                    sendFailed, afterStop >>

PosNext ==
    \/ PosInit
    \/ PosPrintStarted
    \/ PosHead
    \/ PosTick
    \/ PosEmit
    \/ PosOuterSleep
    \/ PosPrintStopped
    \/ PosUnwind
    \/ PosPrintError

(***************************************************************************)
(* graphServer                                                             *)
(***************************************************************************)
\* UDPServer server(12346); GraphGenerator graphGen;
GraphInit ==
    /\ pc["graph"] = "init"
    /\ \E r \in SocketOutcomes :
        /\ sock' = [sock EXCEPT !["graph"] = SockAfterCtor(r)]
        /\ pc' = [pc EXCEPT !["graph"] = PcAfterCtor(r)]
        /\ graphGen' = IF r = "ok" THEN rd ELSE graphGen
    /\ UNCHANGED << mainVars, node, sweeps, posVars, packet, rejects, out,
                    sendFailed, afterStop >>

\* std::cout << "Graph server started on port 12346\n";
GraphPrintStarted ==
    /\ pc["graph"] = "print_started"
    /\ pc' = [pc EXCEPT !["graph"] = "head"]
    /\ UNCHANGED << mainVars, sock, node, sweeps, posVars, graphVars, out,
                    sendFailed, afterStop >>

\* while (running) and the entry of the for loop
GraphHead ==
    /\ pc["graph"] = "head"
    /\ IF LoopCond(running)
       THEN /\ sweeps["graph"] < MaxSweeps
            /\ sweeps' = [sweeps EXCEPT !["graph"] = @ + 1]
            /\ node' = [node EXCEPT !["graph"] = 1]
            /\ pc' = [pc EXCEPT !["graph"] = "emit"]
       ELSE /\ pc' = [pc EXCEPT !["graph"] = "print_stopped"]
            /\ UNCHANGED << sweeps, node >>
    /\ UNCHANGED << mainVars, sock, posVars, graphVars, out, sendFailed, afterStop >>

\* one iteration of the for loop: generateGraph(node_id),
\* server.sendPacket(...), sleep_for(200ms), ++node_id; ok is what sendto()
\* answers
GraphEmit ==
    /\ pc["graph"] = "emit"
    /\ node' = [node EXCEPT !["graph"] = IF @ + 1 <= NUM_NODES THEN @ + 1 ELSE 0]
    /\ afterStop' = [afterStop EXCEPT !["graph"] = CountAfterStop(@, running)]
    /\ UNCHANGED << mainVars, sock, sweeps, posVars >>
    /\ \E g \in {GenerateGraph(graphGen, node["graph"])} :
           /\ graphGen' = g.gen
           /\ packet' = g.packet
           /\ rejects' = g.rejects
           /\ out' = [out EXCEPT !["graph"] = GraphDatagram(g.packet)]
    /\ \E ok \in BOOLEAN :
        /\ sendFailed' = [sendFailed EXCEPT !["graph"] = @ \/ ~ok]
        /\ pc' = [pc EXCEPT !["graph"] =
                    AfterSend(ok, IF node["graph"] + 1 <= NUM_NODES
                                  THEN "emit" ELSE "outer_sleep")]

\* sleep_for(2s)
GraphOuterSleep ==
    /\ pc["graph"] = "outer_sleep"
    /\ pc' = [pc EXCEPT !["graph"] = "head"]
    /\ UNCHANGED << mainVars, sock, node, sweeps, posVars, graphVars, out,
                    sendFailed, afterStop >>

\* std::cout << "Graph server stopped.\n";
GraphPrintStopped ==
    /\ pc["graph"] = "print_stopped"
    /\ pc' = [pc EXCEPT !["graph"] = "unwind"]
    /\ UNCHANGED << mainVars, sock, node, sweeps, posVars, graphVars, out,
                    sendFailed, afterStop >>

\* end of the try block: ~GraphGenerator(), ~UDPServer() closes the socket
GraphUnwind ==
    /\ pc["graph"] = "unwind"
    /\ sock' = [sock EXCEPT !["graph"] = "closed"]
    /\ pc' = [pc EXCEPT !["graph"] = "done"]
    /\ UNCHANGED << mainVars, node, sweeps, posVars, graphVars, out, sendFailed,
                    afterStop >>

\* catch: std::cerr << "Graph server error: " ...
GraphPrintError ==
    /\ pc["graph"] = "print_error"
    /\ pc' = [pc EXCEPT !["graph"] = "done"]
    /\ UNCHANGED << mainVars, sock, node, sweeps, posVars, graphVars, out,
                    sendFailed, afterStop >>

GraphNext ==
    \/ GraphInit
    \/ GraphPrintStarted
    \/ GraphHead
    \/ GraphEmit
    \/ GraphOuterSleep
    \/ GraphPrintStopped
    \/ GraphUnwind
    \/ GraphPrintError

(***************************************************************************)
(* main                                                                    *)
(***************************************************************************)
producerVars == << sock, node, sweeps, posVars, graphVars, out, sendFailed,
                   afterStop >>

\* std::cout << "Starting UDP servers...\n";
MainPrintStarting ==
    /\ mainPc = "start"
    /\ mainPc' = "spawn_pos"
    /\ UNCHANGED << rd, running, lock, pc, producerVars >>

\* std::thread pos_thread(positionServer);
MainSpawnPos ==
    /\ mainPc = "spawn_pos"
    /\ pc' = [pc EXCEPT !["pos"] = "init"]
    /\ mainPc' = "spawn_graph"
    /\ UNCHANGED << rd, running, lock, producerVars >>

\* std::thread graph_thread(graphServer);
MainSpawnGraph ==
    /\ mainPc = "spawn_graph"
    /\ pc' = [pc EXCEPT !["graph"] = "init"]
    /\ mainPc' = "print_running"
    /\ UNCHANGED << rd, running, lock, producerVars >>

\* the two status lines after the threads were started
MainPrintRunning ==
    /\ mainPc = "print_running"
    /\ mainPc' = "wait_input"
    /\ UNCHANGED << rd, running, lock, pc, producerVars >>

\* std::cin.get() returns (the stop signal); running = false;
MainStop ==
    /\ mainPc = "wait_input"
    /\ running' = FALSE
    /\ mainPc' = "join_pos"
    /\ UNCHANGED << rd, lock, pc, producerVars >>

\* a join() that does not wait
JoinReturnsAtOnce(t) == TRUE

\* join() returns once the thread function has returned
JoinReturns(t) == pc[t] = "done"

\* if (pos_thread.joinable()) pos_thread.join();
MainJoinPos ==
    /\ mainPc = "join_pos"
    /\ JoinReturns("pos")
    /\ mainPc' = "join_graph"
    /\ UNCHANGED << rd, running, lock, pc, producerVars >>

\* if (graph_thread.joinable()) graph_thread.join();
MainJoinGraph ==
    /\ mainPc = "join_graph"
    /\ JoinReturns("graph")
    /\ mainPc' = "print_exit"
    /\ UNCHANGED << rd, running, lock, pc, producerVars >>

\* std::cout << "Servers stopped. Exiting cleanly.\n"; return 0;
MainPrintExit ==
    /\ mainPc = "print_exit"
    /\ mainPc' = "done"
    /\ UNCHANGED << rd, running, lock, pc, producerVars >>

\* the steps main() takes before it waits for the stop signal
MainStartup ==
    \/ MainPrintStarting
    \/ MainSpawnPos
    \/ MainSpawnGraph
    \/ MainPrintRunning

\* the steps main() takes once the stop signal was given
MainShutdown ==
    \/ MainJoinPos
    \/ MainJoinGraph
    \/ MainPrintExit

MainNext == MainStartup \/ MainStop \/ MainShutdown

(***************************************************************************)
(* Specifications                                                          *)
(***************************************************************************)
Next == PosNext \/ GraphNext \/ MainNext

\* the whole program
Spec == Init /\ [][Next]_vars

\* the whole program; every thread that can take a step is eventually
\* scheduled, but the stop signal itself may never come
FairSpec ==
    /\ Spec
    /\ WF_vars(PosNext)
    /\ WF_vars(GraphNext)
    /\ WF_vars(MainStartup \/ MainShutdown)

\* the runs of the program in which graphServer is never scheduled: what
\* positionServer computes does not depend on graphServer
PosSystemNext == PosNext \/ MainStartup \/ MainStop \/ MainJoinPos

PosSpec == Init /\ [][PosSystemNext]_vars

\* the runs of the program in which positionServer is never scheduled
GraphSystemNext == GraphNext \/ MainStartup \/ MainStop

GraphSpec == Init /\ [][GraphSystemNext]_vars

TypeOK ==
    /\ running \in BOOLEAN
    /\ \A t \in Threads : sock[t] \in {"none", "open", "closed"}
    /\ \A t \in Threads : node[t] \in 0..NUM_NODES
    /\ \A t \in Threads : sweeps[t] \in 0..MaxSweeps
    /\ \A t \in Threads : sendFailed[t] \in BOOLEAN
    /\ \A t \in Threads : afterStop[t] \in 0..MaxAfterStop
    /\ lock \in {"unlocked"} \cup Threads \cup {"main"}


(***************************************************************************)
(* Properties                                                              *)
(***************************************************************************)
\* the node whose datagram positionServer sent last, while positions still
\* holds what that datagram was built from
PosSent == pc["pos"] = "outer_sleep" \/ (pc["pos"] = "emit" /\ node["pos"] > 1)

LastPosNode == IF pc["pos"] = "emit" THEN NodeIds[node["pos"] - 1] ELSE NodeIds[NUM_NODES]

GraphSent == out["graph"] # << >>

\* C1: every datagram positionServer hands to sendto() is exactly 10 bytes
\* long.
C1_PositionLength ==
    out["pos"] # << >> => Len(out["pos"]) = 10

\* positionServer has sent the datagram of the last node of a sweep
C1_Witness ==
    /\ pc["pos"] = "outer_sleep"
    /\ Len(out["pos"]) = 10
    /\ ParseU16(SubSeq(out["pos"], 1, 2)) = NUM_NODES

\* the edge record number k (from 0) of a graph datagram d
WireEdge(d, k) ==
    [source_id |-> ParseU16(SubSeq(d, 5 + 6 * k, 6 + 6 * k)),
     target_id |-> ParseU16(SubSeq(d, 7 + 6 * k, 8 + 6 * k)),
     strength  |-> ParseU16(SubSeq(d, 9 + 6 * k, 10 + 6 * k))]

\* the edge_count field of a graph datagram d
WireEdgeCount(d) == ParseU16(SubSeq(d, 3, 4))

\* C2: every datagram graphServer hands to sendto() is 4 + 6 * edge_count
\* bytes long with edge_count in 6..35, so at most 214 bytes and at most the
\* 50 slots of the buffer; it is sender_id, edge_count and the first
\* edge_count edge records of the packet, and none of its bytes is a byte
\* the program never wrote.
C2_GraphLength ==
    GraphSent =>
        LET d == out["graph"]
            n == WireEdgeCount(d)
        IN  /\ Len(d) = 4 + 6 * n
            /\ n \in MIN_EDGES..MAX_EDGES
            /\ Len(d) <= 214
            /\ n <= EDGE_SLOTS
            /\ n = packet.edge_count
            /\ SubSeq(d, 1, 2) = U16LE(packet.sender_id)
            /\ \A k \in 0..(n - 1) : WireEdge(d, k) = packet.edges[k + 1]
            /\ \A i \in 1..Len(d) : d[i] \in 0..255

\* graphServer has sent a datagram of the largest size, 35 edges
C2_Witness ==
    /\ GraphSent
    /\ Len(out["graph"]) = 214
    /\ WireEdgeCount(out["graph"]) = MAX_EDGES

\* C3: every edge record of every graph datagram has source_id # target_id,
\* both in 1..20, and strength in 1..1000.
C3_EdgesValid ==
    GraphSent =>
        \A k \in 0..(WireEdgeCount(out["graph"]) - 1) :
            LET e == WireEdge(out["graph"], k)
            IN  /\ e.source_id # e.target_id
                /\ e.source_id \in 1..20
                /\ e.target_id \in 1..20
                /\ e.strength \in 1..1000

\* graphServer has sent a packet for which the do-while threw a draw away
C3_Witness ==
    /\ GraphSent
    /\ rejects > 0
    /\ WireEdgeCount(out["graph"]) >= MIN_EDGES

\* C4: in every state of the World Model, at construction and after every
\* updatePositions(), both coordinates of every node are in [0, 1000].
C4_PositionsInSquare ==
    \A i \in 1..NUM_NODES :
        /\ positions[i][1] >= 0 /\ positions[i][1] <= 1000
        /\ positions[i][2] >= 0 /\ positions[i][2] <= 1000

\* an updatePositions() has moved a coordinate that was 0 by a negative
\* delta and one that was 1000 by a positive delta; both stayed
C4_Witness ==
    /\ \E i \in 1..Len(moves) : \E a \in 1..2 :
        /\ moves[i].moved /\ moves[i].from[a] = 0 /\ moves[i].delta[a] < 0
        /\ positions[i][a] = 0
    /\ \E i \in 1..Len(moves) : \E a \in 1..2 :
        /\ moves[i].moved /\ moves[i].from[a] = 1000 /\ moves[i].delta[a] > 0
        /\ positions[i][a] = 1000

\* C5 as the specification states it: node_id in bytes 0-1, x in bytes 4-7,
\* the first two bytes of y in bytes 8-9.
C5_Original ==
    PosSent =>
        LET d == out["pos"]
            p == GetPosition(positions, LastPosNode)
        IN  /\ SubSeq(d, 1, 2) = U16LE(LastPosNode)
            /\ SubSeq(d, 5, 8) = F32LE(p[1])
            /\ SubSeq(d, 9, 10) = SubSeq(F32LE(p[2]), 1, 2)

\* C5: every position datagram is node_id in bytes 0-1, x in bytes 2-5 and
\* the four bytes of y in bytes 6-9; no padding byte is sent and no byte of y
\* is left out.
C5_PositionLayout ==
    PosSent =>
        LET p == GetPosition(positions, LastPosNode)
        IN  out["pos"] = U16LE(LastPosNode) \o F32LE(p[1]) \o F32LE(p[2])

\* positionServer has sent a node whose y has a non-zero byte among its low
\* two and among its high two
C5_Witness ==
    /\ PosSent
    /\ out["pos"][7] + out["pos"][8] > 0
    /\ out["pos"][9] + out["pos"][10] > 0
    /\ ParseF32(SubSeq(out["pos"], 7, 10)) = GetPosition(positions, LastPosNode)[2]

\* C6: bytes 2-5 of every position datagram are the four bytes of the x the
\* World Model held for the node when the datagram was built, and read as a
\* float they give that x.
C6_XRecovered ==
    PosSent =>
        LET x == GetPosition(positions, LastPosNode)[1]
        IN  /\ SubSeq(out["pos"], 3, 6) = F32LE(x)
            /\ ParseF32(SubSeq(out["pos"], 3, 6)) = x

\* positionServer has sent a node whose x and y differ and whose x is not 0
C6_Witness ==
    /\ PosSent
    /\ GetPosition(positions, LastPosNode)[1] > 0
    /\ GetPosition(positions, LastPosNode)[1] # GetPosition(positions, LastPosNode)[2]
    /\ ParseF32(SubSeq(out["pos"], 3, 6)) = GetPosition(positions, LastPosNode)[1]

\* C7 as the specification states it: a producer sends at most one more
\* datagram once running is false.
C7_Original ==
    \A t \in Threads : afterStop[t] <= 1

\* C7: the flag is polled once per sweep, at the head of the outer loop: once
\* running is false a producer starts no new sweep, and the next time it is
\* at the head of the loop it leaves it.
C7_StopPolledPerSweep ==
    [][\A t \in Threads :
          ~running =>
              /\ sweeps'[t] = sweeps[t]
              /\ (pc[t] = "head" /\ pc'[t] # "head") => pc'[t] = "print_stopped"
              /\ (pc[t] = "emit" /\ node[t] < NUM_NODES) => pc'[t] = "emit"]_vars

\* both producers were stopped in the middle of a sweep, sent more than one
\* datagram after that and returned
C7_Witness ==
    \A t \in Threads : afterStop[t] >= 2 /\ pc[t] = "done" /\ sock[t] = "closed"

\* C8: once running is false, both producers and main() eventually return.
C8_CleanShutdown ==
    (running = FALSE) ~> (mainPc = "done" /\ \A t \in Threads : pc[t] = "done")

\* main() has returned after a stop that came while both producers were in
\* a sweep
C8_Witness ==
    /\ mainPc = "done"
    /\ ~running
    /\ \A t \in Threads : afterStop[t] >= 1

\* C9: main() is past its joins only when both producers have returned, and
\* from then on no datagram is sent.
C9_JoinBeforeReturn ==
    /\ [](mainPc \in {"print_exit", "done"} => \A t \in Threads : pc[t] = "done")
    /\ [][(mainPc = "print_exit" \/ mainPc = "done") =>
             (out' = out /\ node' = node /\ afterStop' = afterStop)]_vars

\* main() has returned after both producers sent datagrams
C9_Witness ==
    /\ mainPc = "done"
    /\ \A t \in Threads : pc[t] = "done" /\ out[t] # << >>

\* C10: whatever sendto() answers, the producer that called it goes on to
\* the same next step (the sleep, then the next node or the outer sleep),
\* and the step changes nothing of the other producer; a send of graphServer
\* leaves the World Model as it is.
C10_SendFailureIgnored ==
    [][\A t \in Threads :
          (pc[t] = "emit" /\ node'[t] # node[t]) =>
              /\ pc'[t] = IF node[t] < NUM_NODES THEN "emit" ELSE "outer_sleep"
              /\ node'[t] = IF node[t] < NUM_NODES THEN node[t] + 1 ELSE 0
              /\ sock'[t] = sock[t]
              /\ \A u \in Threads \ {t} :
                    /\ pc'[u] = pc[u]
                    /\ node'[u] = node[u]
                    /\ sweeps'[u] = sweeps[u]
                    /\ out'[u] = out[u]
              /\ (t = "graph" => UNCHANGED posVars)]_vars

\* sends of both producers were rejected and both finished their sweep
C10_Witness ==
    \A t \in Threads : sendFailed[t] /\ pc[t] = "outer_sleep" /\ sweeps[t] >= 1

\* the constructor of the UDPServer of producer t threw: the producer is in
\* its catch block, or has returned without its socket having been closed
CtorFailed(t) ==
    \/ pc[t] = "print_error"
    \/ (pc[t] = "done" /\ sock[t] # "closed")
    \/ (sock[t] = "none" /\ pc[t] \notin {"unstarted", "init"})

\* C11: a producer whose socket initialisation failed is in its catch block
\* or has returned and has sent no datagram; the step in which it fails
\* changes nothing of the other producer, of running or of main(); running
\* becomes false only when main() gets the stop signal, and main() returns
\* only after that and after both producers returned.
C11_InitFailureIsolated ==
    /\ [](\A t \in Threads :
            CtorFailed(t) =>
                /\ pc[t] \in {"print_error", "done"}
                /\ out[t] = << >>
                /\ sweeps[t] = 0 /\ node[t] = 0)
    /\ [](mainPc = "done" => (~running /\ \A t \in Threads : pc[t] = "done"))
    /\ [][\A t \in Threads :
            (pc[t] = "init" /\ pc'[t] = "print_error") =>
                /\ UNCHANGED mainVars
                /\ \A u \in Threads \ {t} :
                      /\ pc'[u] = pc[u] /\ sock'[u] = sock[u]
                      /\ node'[u] = node[u] /\ out'[u] = out[u]]_vars
    /\ [][(running' # running) => (mainPc = "wait_input" /\ ~running')]_vars

\* socket() failed in positionServer while graphServer sent a whole sweep
\* and closed its socket, and main() returned after the stop signal
C11_Witness ==
    /\ mainPc = "done"
    /\ CtorFailed("pos") /\ sock["pos"] = "none"
    /\ ~CtorFailed("graph") /\ sock["graph"] = "closed"
    /\ sweeps["graph"] = 1 /\ out["graph"] # << >>

\* C12: once a producer has returned, the socket it created has been
\* closed.
C12_SocketsReleased ==
    \A t \in Threads : pc[t] = "done" => sock[t] # "open"

\* the status-line statement task is at, if any ("main" or a producer)
AtStatusLine(task) ==
    IF task = "main"
    THEN mainPc \in {"start", "print_running", "print_exit"}
    ELSE pc[task] \in {"print_started", "print_stopped", "print_error"}

\* the step in which task executes its status-line statement
WritesStatusLine(task) ==
    /\ AtStatusLine(task)
    /\ IF task = "main" THEN mainPc' # mainPc ELSE pc'[task] # pc[task]

\* C13: every write of a status line is performed by a task that holds the
\* mutex (so that no two tasks are ever inside such a write together).
C13_StatusLinesUnderMutex ==
    [][\A task \in Threads \cup {"main"} :
          WritesStatusLine(task) => lock = task]_vars

\* C14 as the specification states it: the decision whether to move is drawn
\* for x and for y separately, two coin tosses for each node in each tick.
C14_Original ==
    \A i \in 1..Len(moves) : moves[i].coins = 2

\* C14: in updatePositions() the decision whether to move is drawn once for
\* each node: either a delta is drawn for and added to both axes of the
\* node, or none is drawn and neither axis changes; no tick draws a move for
\* one axis of a node and none for the other.
C14_OneDecisionPerNode ==
    \A i \in 1..Len(moves) :
        /\ moves[i].coins = 1
        /\ moves[i].drew = << moves[i].moved, moves[i].moved >>
        /\ moves[i].moved =>
              positions[i] = << Clamp(moves[i].from[1] + moves[i].delta[1]),
                                Clamp(moves[i].from[2] + moves[i].delta[2]) >>
        /\ ~moves[i].moved => positions[i] = moves[i].from

\* a tick has moved one node on both axes by non-zero deltas and has left
\* another node where it was
C14_Witness ==
    /\ Len(moves) = NUM_NODES
    /\ \E i \in 1..NUM_NODES :
          /\ moves[i].moved
          /\ positions[i][1] # moves[i].from[1]
          /\ positions[i][2] # moves[i].from[2]
    /\ \E i \in 1..NUM_NODES : ~moves[i].moved /\ positions[i] = moves[i].from

\* |v|
Abs(v) == IF v < 0 THEN 0 - v ELSE v

\* C15: an updatePositions() changes each coordinate of each node by at most
\* 5: the delta is in [-5, 5], the clamp does not make the change larger
\* than the delta, and a node the coin did not select keeps both
\* coordinates.
C15_StepBounded ==
    \A i \in 1..Len(moves) : \A a \in 1..2 :
        /\ Abs(moves[i].delta[a]) <= 5
        /\ Abs(positions[i][a] - moves[i].from[a]) <= Abs(moves[i].delta[a])
        /\ Abs(positions[i][a] - moves[i].from[a]) <= 5
        /\ ~moves[i].moved => positions[i][a] = moves[i].from[a]

\* a tick has moved a coordinate by the full 5, has moved another by less
\* than its delta because of the clamp, and has left a node unmoved
C15_Witness ==
    /\ \E i \in 1..Len(moves) : \E a \in 1..2 :
          moves[i].moved /\ Abs(positions[i][a] - moves[i].from[a]) = 5
    /\ \E i \in 1..Len(moves) : \E a \in 1..2 :
          /\ moves[i].moved
          /\ Abs(positions[i][a] - moves[i].from[a]) < Abs(moves[i].delta[a])
    /\ \E i \in 1..Len(moves) : ~moves[i].moved

\* C16: positionServer leaves the head of its loop only into
\* updatePositions() or out of the loop; updatePositions() is followed by
\* the emission of node 1; every emission sends the node the for loop is at,
\* built from the positions the World Model holds, and leaves the World
\* Model as it is; after node k < 20 comes node k + 1, after node 20 the
\* outer sleep, which nothing else leads to; the World Model changes only in
\* the constructor and in updatePositions().
C16_TickThenSweep ==
    [][/\ (pc["pos"] = "head" /\ pc'["pos"] # "head") =>
              pc'["pos"] \in {"tick", "print_stopped"}
       /\ (pc["pos"] = "tick" /\ pc'["pos"] # "tick") =>
              (pc'["pos"] = "emit" /\ node'["pos"] = 1 /\ Len(moves') = NUM_NODES)
       /\ (pc["pos"] = "emit" /\ node'["pos"] # node["pos"]) =>
              /\ ParseU16(SubSeq(out'["pos"], 1, 2)) = node["pos"]
              /\ ParseF32(SubSeq(out'["pos"], 3, 6)) = positions[node["pos"]][1]
              /\ ParseF32(SubSeq(out'["pos"], 7, 10)) = positions[node["pos"]][2]
              /\ UNCHANGED posVars
              /\ IF node["pos"] < 20
                 THEN pc'["pos"] = "emit" /\ node'["pos"] = node["pos"] + 1
                 ELSE pc'["pos"] = "outer_sleep"
       /\ (pc'["pos"] = "outer_sleep" /\ pc["pos"] # "outer_sleep") =>
              (pc["pos"] = "emit" /\ node["pos"] = 20)
       /\ (out'["pos"] # out["pos"]) => pc["pos"] = "emit"
       /\ (positions' # positions) =>
              (pc["pos"] \in {"init", "tick"} /\ pc'["pos"] # pc["pos"])]_vars

\* positionServer has sent, after those of the nodes before it, the datagram
\* of a node that the tick of the sweep moved, and it carries the position
\* the tick gave the node
C16_Witness ==
    /\ PosSent
    /\ LastPosNode >= 2
    /\ Len(moves) = NUM_NODES
    /\ moves[LastPosNode].moved
    /\ positions[LastPosNode][1] # moves[LastPosNode].from[1]
    /\ ParseU16(SubSeq(out["pos"], 1, 2)) = LastPosNode
    /\ ParseF32(SubSeq(out["pos"], 3, 6)) = positions[LastPosNode][1]
    /\ ParseF32(SubSeq(out["pos"], 7, 10)) = positions[LastPosNode][2]

\* C17: graphServer enters its for loop at node 1; every emission sends a
\* packet whose sender_id is the node id the loop is at, whatever its edges
\* are; after node k < 20 comes node k + 1, after node 20 the outer sleep,
\* which nothing else leads to; every sender_id sent is in 1..20.
C17_SenderIsLoopNode ==
    /\ [](GraphSent => ParseU16(SubSeq(out["graph"], 1, 2)) \in 1..20)
    /\ [][/\ (pc["graph"] = "head" /\ pc'["graph"] = "emit") => node'["graph"] = 1
          /\ (pc["graph"] = "emit" /\ node'["graph"] # node["graph"]) =>
                /\ ParseU16(SubSeq(out'["graph"], 1, 2)) = node["graph"]
                /\ packet'.sender_id = node["graph"]
                /\ IF node["graph"] < 20
                   THEN pc'["graph"] = "emit" /\ node'["graph"] = node["graph"] + 1
                   ELSE pc'["graph"] = "outer_sleep"
          /\ (pc'["graph"] = "outer_sleep" /\ pc["graph"] # "outer_sleep") =>
                (pc["graph"] = "emit" /\ node["graph"] = 20)
          /\ (out'["graph"] # out["graph"]) => pc["graph"] = "emit"]_vars

\* graphServer has sent the packet of node 20, and no edge of it starts or
\* ends at node 20
C17_Witness ==
    /\ pc["graph"] = "outer_sleep"
    /\ ParseU16(SubSeq(out["graph"], 1, 2)) = 20
    /\ \A k \in 0..(WireEdgeCount(out["graph"]) - 1) :
          /\ WireEdge(out["graph"], k).source_id # 20
          /\ WireEdge(out["graph"], k).target_id # 20

\* C18: running changes only in the step of main() that takes the stop
\* signal, from true to false; a step that changes the World Model is a step
\* of positionServer, a step that changes the GraphGenerator or its packet
\* is a step of graphServer, and neither is a step of the other producer.
C18_OnlyRunningShared ==
    [][/\ (running' # running) =>
              (running /\ ~running' /\ mainPc = "wait_input" /\ mainPc' = "join_pos"
               /\ pc' = pc)
       /\ (posVars' # posVars) =>
              /\ pc["pos"] \in {"init", "tick"} /\ pc'["pos"] # pc["pos"]
              /\ pc'["graph"] = pc["graph"] /\ node'["graph"] = node["graph"]
              /\ UNCHANGED graphVars
       /\ (graphVars' # graphVars) =>
              /\ pc["graph"] \in {"init", "emit"}
              /\ pc'["graph"] # pc["graph"] \/ node'["graph"] # node["graph"]
              /\ pc'["pos"] = pc["pos"] /\ node'["pos"] = node["pos"]
              /\ UNCHANGED posVars]_vars

\* main() has set running to false after positionServer ticked and
\* graphServer generated a packet
C18_Witness ==
    /\ ~running
    /\ moves # << >>
    /\ packet # NoPacket
    /\ sweeps["pos"] = 1 /\ sweeps["graph"] = 1

\* producer t has left its while loop (has not ended in the catch block)
LeftLoop(t) ==
    \/ pc[t] \in {"print_stopped", "unwind"}
    \/ (pc[t] = "done" /\ sock[t] = "closed")

\* C19: a producer that finds running false the first time it evaluates the
\* condition of its loop leaves the loop at once; a producer that has
\* started no sweep has sent no datagram (and positionServer has not
\* ticked); a producer is past its loop only when running is false.
C19_StopBeforeFirstSweep ==
    /\ [](\A t \in Threads :
            /\ sweeps[t] = 0 => (out[t] = << >> /\ node[t] = 0)
            /\ LeftLoop(t) => ~running)
    /\ [](sweeps["pos"] = 0 => moves = << >>)
    /\ [][\A t \in Threads :
            (pc[t] = "head" /\ ~running /\ pc'[t] # pc[t]) =>
                /\ pc'[t] = "print_stopped"
                /\ sweeps'[t] = sweeps[t]
                /\ out'[t] = out[t]]_vars

\* both producers found running false at their first look at it, ended
\* without a tick or a datagram and closed their sockets; main() returned
C19_Witness ==
    /\ mainPc = "done"
    /\ \A t \in Threads :
          /\ pc[t] = "done" /\ sock[t] = "closed"
          /\ sweeps[t] = 0 /\ out[t] = << >>
    /\ moves = << >>

=============================================================================
